---- MODULE Spec2Model ----
(***************************************************************************)
(* jsonb_delta: identifier extraction and array containment lookup.        *)
(*                                                                         *)
(* A model of src/src/lib.rs (jsonb_extract_id, jsonb_array_contains_id,   *)
(* find_element_by_match) and src/src/search.rs (find_by_int_id_optimized, *)
(* find_by_int_id_scalar).  Documents are serde_json::Value trees.         *)
(*                                                                         *)
(* Encoding.  A Value is a record tagged by its variant in field t.        *)
(* Numbers keep serde_json's internal representation (PosInt, NegInt or    *)
(* Float).  A Float carries its value in halves (Float(3) is 1.5), so that *)
(* 1 and 1.0 are different representations of one numeric value.  Integer  *)
(* widths are scaled down: an i64 has I64Bits bits.  Text is a sequence of *)
(* one-character strings.  Option<T> is <<>> (None) or <<x>> (Some(x)).    *)
(* Array indices are 0-based as in the source.                             *)
(***************************************************************************)
EXTENDS Integers, Sequences, FiniteSets, TLC

VARIABLES
    data,         \* the JSONB document handed to the extension functions
    array_path,   \* name of the array field inside data
    match_key,    \* key / id_key / match_key argument
    match_value,  \* id_value / match_value argument (a Value)
    op,           \* the function called last ("none" before any call)
    ret,          \* what that call returned
    panicked,     \* whether that call unwound (panicked) instead of returning
    pc,           \* position inside a stepwise run of find_by_int_id_optimized
    chunk_idx,    \* outer loop variable of the block-unrolled scan
    i,            \* inner loop variable (block offset) / position of the iterators
    examined      \* indices whose element has been read so far, in order

vars == <<data, array_path, match_key, match_value, op, ret, panicked, pc, chunk_idx, i, examined>>

inputs == <<data, array_path, match_key, match_value>>

scanvars == <<pc, chunk_idx, i, examined>>

-----------------------------------------------------------------------------
(* Bounds of the model *)

\* scaled-down width of i64 / u64
I64Bits == 8

\* longest array enumerated exhaustively
MaxSmallLen == 3

\* longest array of the structured (filler plus special elements) family
MaxLen == 40

(* Program constants *)

UNROLL == 8

THRESHOLD == 32

-----------------------------------------------------------------------------
(* Option<T> *)

None == <<>>

Some(x) == <<x>>

IsSome(o) == o # None

Unwrap(o) == o[1]

-----------------------------------------------------------------------------
(* Integer widths *)

RECURSIVE Pow2(_)
Pow2(n) == IF n = 0 THEN 1 ELSE 2 * Pow2(n - 1)

I64_MAX == Pow2(I64Bits - 1) - 1

U64_MAX == Pow2(I64Bits) - 1

-----------------------------------------------------------------------------
(* serde_json::Value and its six variants *)

Null == [t |-> "Null"]

Bool(b) == [t |-> "Bool", b |-> b]

PosInt(u) == [t |-> "Number", n |-> [rep |-> "PosInt", v |-> u]]

NegInt(s) == [t |-> "Number", n |-> [rep |-> "NegInt", v |-> s]]

\* h is the value in halves: Float(2) is 1.0, Float(3) is 1.5
Float(h) == [t |-> "Number", n |-> [rep |-> "Float", v |-> h]]

Str(s) == [t |-> "String", s |-> s]

Arr(a) == [t |-> "Array", a |-> a]

Obj(o) == [t |-> "Object", o |-> o]

\* Value::as_object
as_object(v) == IF v.t = "Object" THEN Some(v.o) ELSE None

\* Value::as_array
as_array(v) == IF v.t = "Array" THEN Some(v.a) ELSE None

\* Map::get
map_get(o, key) == IF key \in DOMAIN o THEN Some(o[key]) ELSE None

\* Value::get(&str): a member of an object, None for every other variant
get(v, key) == IF v.t = "Object" THEN map_get(v.o, key) ELSE None

\* a variant of as_i64 that casts without the range test (u64 as i64 wraps)
as_i64_wrapping(v) ==
    IF v.t # "Number" THEN None
    ELSE IF v.n.rep = "PosInt"
         THEN Some(IF v.n.v > I64_MAX THEN v.n.v - Pow2(I64Bits) ELSE v.n.v)
    ELSE IF v.n.rep = "NegInt" THEN Some(v.n.v)
    ELSE None

\* Value::as_i64: integers that fit an i64; floats and larger integers do not
as_i64(v) ==
    IF v.t # "Number" THEN None
    ELSE IF v.n.rep = "PosInt" THEN (IF v.n.v <= I64_MAX THEN Some(v.n.v) ELSE None)
    ELSE IF v.n.rep = "NegInt" THEN Some(v.n.v)
    ELSE None

\* Number == Number: same representation and same payload
NumberEq(a, b) == a.rep = b.rep /\ a.v = b.v

\* Value == Value (derived PartialEq): same variant and equal payloads
RECURSIVE ValueEq(_, _)
ValueEq(a, b) ==
    /\ a.t = b.t
    /\ CASE a.t = "Null" -> TRUE
         [] a.t = "Bool" -> a.b = b.b
         [] a.t = "Number" -> NumberEq(a.n, b.n)
         [] a.t = "String" -> a.s = b.s
         [] a.t = "Array" ->
                /\ Len(a.a) = Len(b.a)
                /\ \A j \in 1..Len(a.a) : ValueEq(a.a[j], b.a[j])
         [] a.t = "Object" ->
                /\ DOMAIN a.o = DOMAIN b.o
                /\ \A k \in DOMAIN a.o : ValueEq(a.o[k], b.o[k])

\* array[idx] with a 0-based index
At(array, idx) == array[idx + 1]

-----------------------------------------------------------------------------
(* Number::to_string *)

Digit(d) == <<"0", "1", "2", "3", "4", "5", "6", "7", "8", "9">>[d + 1]

\* itoa of an unsigned integer
RECURSIVE UDigits(_)
UDigits(u) == IF u < 10 THEN <<Digit(u)>> ELSE Append(UDigits(u \div 10), Digit(u % 10))

Abs(x) == IF x < 0 THEN 0 - x ELSE x

\* a variant of Display for Number that loses the sign of a negative integer
NumberToString_NoSign(n) ==
    IF n.rep = "Float"
    THEN (IF n.v < 0 THEN <<"-">> ELSE <<>>)
            \o UDigits(Abs(n.v) \div 2)
            \o <<".">>
            \o (IF Abs(n.v) % 2 = 1 THEN <<"5">> ELSE <<"0">>)
    ELSE UDigits(Abs(n.v))

\* Display for Number: itoa for the integers, the shortest decimal that reads
\* back as the same f64 for a float (always with a fractional part)
NumberToString(n) ==
    IF n.rep = "PosInt" THEN UDigits(n.v)
    ELSE IF n.rep = "NegInt" THEN <<"-">> \o UDigits(Abs(n.v))
    ELSE (IF n.v < 0 THEN <<"-">> ELSE <<>>)
            \o UDigits(Abs(n.v) \div 2)
            \o <<".">>
            \o (IF Abs(n.v) % 2 = 1 THEN <<"5">> ELSE <<"0">>)

-----------------------------------------------------------------------------
(* src/src/lib.rs: jsonb_extract_id *)

jsonb_extract_id(doc, key) ==
    LET obj == as_object(doc) IN
    IF obj = None THEN None
    ELSE LET id_value == map_get(Unwrap(obj), key) IN
         IF id_value = None THEN None
         ELSE IF Unwrap(id_value).t = "String" THEN Some(Unwrap(id_value).s)
         ELSE IF Unwrap(id_value).t = "Number" THEN Some(NumberToString(Unwrap(id_value).n))
         ELSE None

-----------------------------------------------------------------------------
(* src/src/search.rs *)

\* what a call returns when an indexing expression is out of bounds
Panic == <<"panic", "index out of bounds">>

\* elem.get(match_key).and_then(Value::as_i64) == Some(match_value)
ScalarHit(elem, key, mv) ==
    LET v == get(elem, key) IN
    (IF v = None THEN None ELSE as_i64(Unwrap(v))) = Some(mv)

\* a variant of the scalar scan that returns the last hit (rposition)
ScalarFrom_Last(array, key, mv, idx) ==
    LET hits == { j \in idx..(Len(array) - 1) : ScalarHit(At(array, j), key, mv) } IN
    IF hits = {} THEN None
    ELSE Some(CHOOSE j \in hits : \A k \in hits : k <= j)

\* array.iter().position(..) of find_by_int_id_scalar, from index idx on
RECURSIVE ScalarFrom(_, _, _, _)
ScalarFrom(array, key, mv, idx) ==
    IF idx >= Len(array) THEN None
    ELSE IF ScalarHit(At(array, idx), key, mv) THEN Some(idx)
    ELSE ScalarFrom(array, key, mv, idx + 1)

find_by_int_id_scalar(array, key, mv) == ScalarFrom(array, key, mv, 0)

\* a variant that rounds the number of blocks up
Chunks_Ceil(array) == (Len(array) + UNROLL - 1) \div UNROLL

\* number of full blocks
Chunks(array) == Len(array) \div UNROLL

\* the three nested tests of the unrolled loop body
BlockHit(elem, key, mv) ==
    LET v == get(elem, key) IN
    /\ v # None
    /\ as_i64(Unwrap(v)) # None
    /\ Unwrap(as_i64(Unwrap(v))) = mv

\* the test of the remainder loop
RemainderHit(elem, key, mv) ==
    LET v == get(elem, key) IN
    /\ v # None
    /\ as_i64(Unwrap(v)) = Some(mv)

\* a variant whose remainder loop skips one element too many
RemainderStart_Skip(array) == Chunks(array) * UNROLL + 1

\* first index the remainder loop starts at: enumerate().skip(chunks * UNROLL)
RemainderStart(array) == Chunks(array) * UNROLL

\* a variant without the remainder loop
RemainderFrom_None(array, key, mv, idx) == None

\* the remainder loop, from index idx on
RECURSIVE RemainderFrom(_, _, _, _)
RemainderFrom(array, key, mv, idx) ==
    IF idx >= Len(array) THEN None
    ELSE IF RemainderHit(At(array, idx), key, mv) THEN Some(idx)
    ELSE RemainderFrom(array, key, mv, idx + 1)

\* the block loops, from block c, offset k on; then the remainder loop
RECURSIVE BlocksFrom(_, _, _, _, _)
BlocksFrom(array, key, mv, c, k) ==
    IF c >= Chunks(array) THEN RemainderFrom(array, key, mv, RemainderStart(array))
    ELSE IF k >= UNROLL THEN BlocksFrom(array, key, mv, c + 1, 0)
    ELSE LET base == c * UNROLL IN
         IF base + k >= Len(array) THEN Panic
         ELSE IF BlockHit(At(array, base + k), key, mv) THEN Some(base + k)
         ELSE BlocksFrom(array, key, mv, c, k + 1)

\* the dispatch on the array's length
UseScalar(array) == Len(array) < THRESHOLD

find_by_int_id_optimized(array, key, mv) ==
    IF UseScalar(array) THEN find_by_int_id_scalar(array, key, mv)
    ELSE BlocksFrom(array, key, mv, 0, 0)

-----------------------------------------------------------------------------
(* src/src/lib.rs: find_element_by_match and jsonb_array_contains_id *)

\* a variant that indexes the element (elem[match_key] == *match_value):
\* indexing yields Null where there is no such member
GenericHit_Index(elem, key, value) ==
    LET v == get(elem, key) IN
    ValueEq(IF v = None THEN Null ELSE Unwrap(v), value)

\* elem.get(match_key).is_some_and(|v| v == match_value)
GenericHit(elem, key, value) ==
    LET v == get(elem, key) IN
    v # None /\ ValueEq(Unwrap(v), value)

\* array.iter().position(..) of the generic scan, from index idx on
RECURSIVE GenericFrom(_, _, _, _)
GenericFrom(array, key, value, idx) ==
    IF idx >= Len(array) THEN None
    ELSE IF GenericHit(At(array, idx), key, value) THEN Some(idx)
    ELSE GenericFrom(array, key, value, idx + 1)

generic_scan(array, key, value) == GenericFrom(array, key, value, 0)

find_element_by_match(array, key, value) ==
    LET int_id == as_i64(value) IN
    IF int_id = None THEN generic_scan(array, key, value)
    ELSE find_by_int_id_optimized(array, key, Unwrap(int_id))

\* a variant that takes a member that is no array for an array of one element
ResolveArray_Lenient(doc, path) ==
    LET obj == as_object(doc) IN
    IF obj = None THEN None
    ELSE LET m == map_get(Unwrap(obj), path) IN
         IF m = None THEN None
         ELSE IF as_array(Unwrap(m)) = None THEN Some(<<Unwrap(m)>>)
         ELSE as_array(Unwrap(m))

\* obj.get(array_path).and_then(|v| v.as_array())
ResolveArray(doc, path) ==
    LET obj == as_object(doc) IN
    IF obj = None THEN None
    ELSE LET m == map_get(Unwrap(obj), path) IN
         IF m = None THEN None ELSE as_array(Unwrap(m))

jsonb_array_contains_id(doc, path, key, value) ==
    LET array == ResolveArray(doc, path) IN
    IF array = None THEN FALSE
    ELSE IsSome(find_element_by_match(Unwrap(array), key, value))

\* the call unwinds when the search it makes does
ContainsIdPanics(doc, path, key, value) ==
    LET array == ResolveArray(doc, path) IN
    array # None /\ find_element_by_match(Unwrap(array), key, value) = Panic

-----------------------------------------------------------------------------
(* The inputs the model draws *)

Keys == {"id", "alt"}

\* values a member of an array element, or of a document, may hold
FieldValues ==
    { PosInt(1), PosInt(2), PosInt(U64_MAX), NegInt(-1),
      Float(2), Float(3), Float(-2),
      Str(<<"1">>), Str(<<"a", "b">>), Null, Bool(TRUE),
      Arr(<<PosInt(1)>>), Obj([id |-> PosInt(1)]) }

\* array elements: objects with the key, objects without it, other variants
Elements ==
    { Obj([id |-> fv]) : fv \in FieldValues }
        \cup { Obj([alt |-> PosInt(1)]), Obj([id |-> NegInt(-1), alt |-> Float(2)]) }
        \cup { PosInt(1), Str(<<"1">>), Null, Arr(<<Obj([id |-> PosInt(1)])>>) }

\* values to look for: integers that fit an i64, and values that do not
MatchValues ==
    { PosInt(1), NegInt(-1), PosInt(U64_MAX), Float(2), Float(3),
      Str(<<"1">>), Null, Bool(TRUE), Arr(<<PosInt(1)>>), Obj([id |-> PosInt(1)]) }

\* the values looked for in the long arrays
LargeMatchValues == { PosInt(1), NegInt(-1), Float(2), Str(<<"1">>) }

\* the elements placed among the fillers of a long array
LargeElements ==
    { Obj([id |-> PosInt(1)]), Obj([id |-> NegInt(-1)]), Obj([id |-> PosInt(U64_MAX)]),
      Obj([id |-> Float(2)]), Obj([id |-> Str(<<"1">>)]),
      Obj([alt |-> PosInt(1)]), PosInt(1) }

\* the elements of the short arrays of two elements and more
SmallElements ==
    { Obj([id |-> PosInt(1)]), Obj([id |-> NegInt(-1)]), Obj([id |-> Float(2)]),
      Obj([id |-> Str(<<"1">>)]), Obj([alt |-> PosInt(1)]), PosInt(1) }

\* every array of at most one element, and every array of at most MaxSmallLen
\* elements among SmallElements
SmallArrays ==
    UNION { [1..n -> Elements] : n \in 0..1 }
        \cup UNION { [1..n -> SmallElements] : n \in 2..MaxSmallLen }

\* elements the long arrays are filled with
Fillers == { Obj([alt |-> PosInt(1)]), Obj([id |-> PosInt(2)]) }

\* lengths on both sides of the threshold, with and without a remainder
LargeLens == { THRESHOLD - 1, THRESHOLD, THRESHOLD + 3, MaxLen }

\* places of interest: block starts and ends, the threshold, the last element
Positions(n) ==
    { p \in { 0, UNROLL - 1, UNROLL, THRESHOLD - 1, THRESHOLD, THRESHOLD + 1, n - 1 } : p < n }

\* filler everywhere, e at p, and e again at q (q = p: only once)
Filled(n, f, p, q, e) == [j \in 1..n |-> IF j - 1 = p \/ j - 1 = q THEN e ELSE f]

LargeArrays ==
    { Filled(c[1], c[2], c[3], c[4], c[5]) :
        c \in { d \in LargeLens \X Fillers \X (0..MaxLen) \X (0..MaxLen) \X LargeElements :
                  /\ d[3] \in Positions(d[1])
                  /\ d[4] \in { d[3], d[3] + 1, d[1] - 1 }
                  /\ d[4] < d[1] } }

\* documents whose member "posts" is an array
SmallDocs == { Obj([posts |-> Arr(a)]) : a \in SmallArrays }

LargeDocs == { Obj([posts |-> Arr(a)]) : a \in LargeArrays }

\* documents without an array under the path: not objects, no such member,
\* a member of another variant
OtherDocs ==
    Elements
        \cup { Obj([other |-> Arr(<<Obj([id |-> PosInt(1)])>>)]),
               Obj([posts |-> Obj([id |-> PosInt(1)])]),
               Obj([posts |-> Str(<<"1">>)]),
               Obj([posts |-> Null]),
               Obj([posts |-> PosInt(1), id |-> Str(<<"a", "b">>)]),
               Arr(<<Obj([id |-> PosInt(1)])>>) }

Paths == {"posts", "other"}

-----------------------------------------------------------------------------
(* The state machine: a query is set up, then functions are called on it *)

Idle ==
    /\ pc = "idle"
    /\ chunk_idx = 0
    /\ i = 0
    /\ examined = <<>>

Init ==
    /\ \/ data \in SmallDocs /\ array_path = "posts" /\ match_value \in MatchValues
       \/ data \in LargeDocs /\ array_path = "posts" /\ match_value \in LargeMatchValues
       \/ data \in OtherDocs /\ array_path \in Paths /\ match_value \in MatchValues
    /\ match_key \in Keys
    /\ op = "none"
    /\ ret = None
    /\ panicked = FALSE
    /\ Idle

\* the array the containment query resolves, handed on to the search helpers
HasArray == ResolveArray(data, array_path) # None

TheArray == Unwrap(ResolveArray(data, array_path))

\* the match value is an integer that fits an i64
HasInt == as_i64(match_value) # None

TheInt == Unwrap(as_i64(match_value))

CallExtractId ==
    /\ op' = "jsonb_extract_id"
    /\ ret' = jsonb_extract_id(data, match_key)
    /\ panicked' = FALSE
    /\ UNCHANGED <<inputs, scanvars>>

\* the array without its element at index idx
RemoveAt(array, idx) == SubSeq(array, 1, idx) \o SubSeq(array, idx + 2, Len(array))

\* a variant of the containment query that takes the element it finds out of
\* the document
CallContainsId_Take ==
    /\ op' = "jsonb_array_contains_id"
    /\ panicked' = ContainsIdPanics(data, array_path, match_key, match_value)
    /\ ret' = (~panicked' /\ jsonb_array_contains_id(data, array_path, match_key, match_value))
    /\ data' = IF ret'
               THEN Obj([data.o EXCEPT ![array_path] =
                           Arr(RemoveAt(TheArray,
                                 Unwrap(find_element_by_match(TheArray, match_key, match_value))))])
               ELSE data
    /\ UNCHANGED <<array_path, match_key, match_value, scanvars>>

CallContainsId ==
    /\ op' = "jsonb_array_contains_id"
    /\ panicked' = ContainsIdPanics(data, array_path, match_key, match_value)
    /\ ret' = (~panicked' /\ jsonb_array_contains_id(data, array_path, match_key, match_value))
    /\ UNCHANGED <<inputs, scanvars>>

CallFindElementByMatch ==
    /\ HasArray
    /\ op' = "find_element_by_match"
    /\ ret' = find_element_by_match(TheArray, match_key, match_value)
    /\ panicked' = (ret' = Panic)
    /\ UNCHANGED <<inputs, scanvars>>

CallFindByIntIdOptimized ==
    /\ HasArray
    /\ HasInt
    /\ op' = "find_by_int_id_optimized"
    /\ ret' = find_by_int_id_optimized(TheArray, match_key, TheInt)
    /\ panicked' = (ret' = Panic)
    /\ UNCHANGED <<inputs, scanvars>>

CallFindByIntIdScalar ==
    /\ HasArray
    /\ HasInt
    /\ op' = "find_by_int_id_scalar"
    /\ ret' = find_by_int_id_scalar(TheArray, match_key, TheInt)
    /\ panicked' = (ret' = Panic)
    /\ UNCHANGED <<inputs, scanvars>>

Next ==
    \/ CallExtractId
    \/ CallContainsId
    \/ CallFindElementByMatch
    \/ CallFindByIntIdOptimized
    \/ CallFindByIntIdScalar

Spec == Init /\ [][Next]_vars

-----------------------------------------------------------------------------
(* Vocabulary of the properties *)

\* twice the numeric value a Number denotes, whatever its representation
NumValue2(n) == IF n.rep = "Float" THEN n.v ELSE 2 * n.v

Indices(array) == 0..(Len(array) - 1)

\* the field of element j under the key, when it has one
HasField(array, j, key) == get(At(array, j), key) # None

Field(array, j, key) == Unwrap(get(At(array, j), key))

\* indices of the elements whose field under the key is the value looked for
Matching(array, key, value) ==
    { j \in Indices(array) : HasField(array, j, key) /\ Field(array, j, key) = value }

MinOf(S) == CHOOSE x \in S : \A y \in S : x <= y

\* the index of the first matching element, or absence
FirstMatch(array, key, value) ==
    IF Matching(array, key, value) = {} THEN None
    ELSE Some(MinOf(Matching(array, key, value)))

IntPathOps == { "find_by_int_id_optimized", "find_by_int_id_scalar" }

SearchOps == IntPathOps \cup { "find_element_by_match" }

BlockBranch == HasArray /\ ~UseScalar(TheArray)

-----------------------------------------------------------------------------
(* C1: for an integer match value, find_by_int_id_optimized (scalar branch  *)
(* and block-unrolled branch alike) returns what the generic scan           *)
(* position(elem.get(k) == v) returns on the same array, key and value,     *)
(* whatever the variants of the elements and of their fields.               *)
C1_FastPathEqualsGeneric ==
    op = "find_by_int_id_optimized" =>
        ret = generic_scan(TheArray, match_key, match_value)

\* the block-unrolled branch passed over a float 1.0 looking for the integer 1
C1_Witness ==
    /\ op = "find_by_int_id_optimized"
    /\ BlockBranch
    /\ match_value = PosInt(1)
    /\ \E j \in Indices(TheArray) :
          HasField(TheArray, j, match_key) /\ Field(TheArray, j, match_key) = Float(2)
    /\ ret = None

(* C2: find_element_by_match returns the smallest index whose element has   *)
(* the field equal to the value, and None exactly when there is no such     *)
(* element, on the generic, the scalar and the block-unrolled path.         *)
C2_FirstMatch ==
    op = "find_element_by_match" =>
        ret = FirstMatch(TheArray, match_key, match_value)

\* two elements share the value on the block-unrolled path; the lower wins
C2_Witness ==
    /\ op = "find_element_by_match"
    /\ HasInt
    /\ BlockBranch
    /\ Cardinality(Matching(TheArray, match_key, match_value)) >= 2
    /\ ret = Some(MinOf(Matching(TheArray, match_key, match_value)))
    /\ Unwrap(ret) > 0

\* elements that do not match the value looked for
NonMatching(key, value) ==
    { e \in Elements : get(e, key) = None \/ Unwrap(get(e, key)) # value }

(* C3: the threshold selects the strategy, not the outcome:                 *)
(* find_by_int_id_optimized agrees with find_by_int_id_scalar on every      *)
(* array, and an array of THRESHOLD - 1 elements gives the same result as   *)
(* the array of THRESHOLD elements made by appending a non-matching one.    *)
C3_ThresholdNeutral ==
    op = "find_by_int_id_optimized" =>
        /\ ret = find_by_int_id_scalar(TheArray, match_key, TheInt)
        /\ Len(TheArray) = THRESHOLD - 1 =>
              \A e \in NonMatching(match_key, match_value) :
                  find_by_int_id_optimized(Append(TheArray, e), match_key, TheInt) = ret

\* a hit in the last element of an array one short of the threshold
C3_Witness ==
    /\ op = "find_by_int_id_optimized"
    /\ HasArray
    /\ Len(TheArray) = THRESHOLD - 1
    /\ ret = Some(THRESHOLD - 2)

(* C4: in the block-unrolled branch, when the length is not a multiple of   *)
(* UNROLL and the only matching element lies after the last full block,     *)
(* its index is returned.                                                   *)
C4_RemainderFound ==
    (/\ op = "find_by_int_id_optimized"
     /\ BlockBranch
     /\ Len(TheArray) % UNROLL # 0) =>
        \A j \in Indices(TheArray) :
            (/\ Matching(TheArray, match_key, match_value) = {j}
             /\ j >= UNROLL * (Len(TheArray) \div UNROLL)) => ret = Some(j)

\* 35 elements, the only match in the last of the 3 remainder elements
C4_Witness ==
    /\ op = "find_by_int_id_optimized"
    /\ HasArray
    /\ Len(TheArray) = THRESHOLD + 3
    /\ Matching(TheArray, match_key, match_value) = {THRESHOLD + 2}
    /\ ret = Some(THRESHOLD + 2)

-----------------------------------------------------------------------------
(* Reading decimal text *)

DigitChars == {"0", "1", "2", "3", "4", "5", "6", "7", "8", "9"}

DigitValue(c) ==
    CASE c = "0" -> 0 [] c = "1" -> 1 [] c = "2" -> 2 [] c = "3" -> 3 [] c = "4" -> 4
      [] c = "5" -> 5 [] c = "6" -> 6 [] c = "7" -> 7 [] c = "8" -> 8 [] c = "9" -> 9

RECURSIVE DigitsValue(_)
DigitsValue(t) ==
    IF t = <<>> THEN 0
    ELSE 10 * DigitsValue(SubSeq(t, 1, Len(t) - 1)) + DigitValue(t[Len(t)])

AllDigits(t) == t # <<>> /\ \A j \in 1..Len(t) : t[j] \in DigitChars

Negative(t) == t # <<>> /\ t[1] = "-"

Unsigned(t) == IF Negative(t) THEN Tail(t) ELSE t

DotAt(t) == { j \in 1..Len(t) : t[j] = "." }

IntPart(t) == IF DotAt(t) = {} THEN t ELSE SubSeq(t, 1, MinOf(DotAt(t)) - 1)

FracPart(t) == IF DotAt(t) = {} THEN <<>> ELSE SubSeq(t, MinOf(DotAt(t)) + 1, Len(t))

\* an optional sign, digits, and optionally a point and a fraction of 0 or 5
IsDecimalText(t) ==
    /\ AllDigits(IntPart(Unsigned(t)))
    /\ DotAt(t) = {} \/ FracPart(Unsigned(t)) \in { <<"0">>, <<"5">> }

\* twice the value the decimal text denotes
DecimalValue2(t) ==
    (IF Negative(t) THEN -1 ELSE 1)
        * (2 * DigitsValue(IntPart(Unsigned(t)))
             + (IF FracPart(Unsigned(t)) = <<"5">> THEN 1 ELSE 0))

\* the member of the document under the key, when the document is an object
\* that has one
Member(doc, key) ==
    IF doc.t = "Object" /\ key \in DOMAIN doc.o THEN Some(doc.o[key]) ELSE None

(* C5: jsonb_extract_id returns a string member verbatim, a number member   *)
(* as its decimal text, and absence in every other case (not an object,     *)
(* no such member, a boolean, null, array or object member); it never       *)
(* fails.                                                                   *)
C5_ExtractId ==
    op = "jsonb_extract_id" =>
        /\ ~panicked
        /\ LET m == Member(data, match_key) IN
           IF m # None /\ Unwrap(m).t = "String" THEN ret = Some(Unwrap(m).s)
           ELSE IF m # None /\ Unwrap(m).t = "Number"
                THEN /\ ret # None
                     /\ IsDecimalText(Unwrap(ret))
                     /\ DecimalValue2(Unwrap(ret)) = NumValue2(Unwrap(m).n)
           ELSE ret = None

\* the float -1.0 comes out as the text -1.0
C5_Witness ==
    /\ op = "jsonb_extract_id"
    /\ Member(data, match_key) = Some(Float(-2))
    /\ ret = Some(<<"-", "1", ".", "0">>)

(* C6: jsonb_array_contains_id returns false when the document is not an    *)
(* object, has no member under the path, or that member is not an array;    *)
(* otherwise true exactly when find_element_by_match finds an index (so     *)
(* false for an empty array).  It never fails.                              *)
C6_ContainsId ==
    op = "jsonb_array_contains_id" =>
        /\ ~panicked
        /\ LET m == Member(data, array_path) IN
           IF m = None \/ Unwrap(m).t # "Array" THEN ret = FALSE
           ELSE /\ ret = IsSome(find_element_by_match(Unwrap(m).a, match_key, match_value))
                /\ Unwrap(m).a = <<>> => ret = FALSE

\* the member under the path is there but is no array
C6_Witness ==
    /\ op = "jsonb_array_contains_id"
    /\ Member(data, array_path) # None
    /\ Unwrap(Member(data, array_path)).t = "Object"
    /\ Member(Unwrap(Member(data, array_path)), match_key) = Some(match_value)
    /\ ret = FALSE

(* C7: on the generic, the scalar and the block-unrolled path an element    *)
(* without the match key (an element that is no object included) is never   *)
(* returned, does not stop the scan, and a matching element after it is     *)
(* still found.                                                             *)
C7_MissingKeySkipped ==
    op \in SearchOps =>
        /\ ~panicked
        /\ ret # None => HasField(TheArray, Unwrap(ret), match_key)
        /\ \A j \in Matching(TheArray, match_key, match_value) :
              (/\ \A m \in 0..(j - 1) : m \notin Matching(TheArray, match_key, match_value)
               /\ \E m \in 0..(j - 1) : ~HasField(TheArray, m, match_key)) => ret = Some(j)

\* the block-unrolled path passes 32 elements without the key and finds the 33rd
C7_Witness ==
    /\ op = "find_by_int_id_optimized"
    /\ BlockBranch
    /\ ret = Some(THRESHOLD)
    /\ \A m \in 0..(THRESHOLD - 1) : ~HasField(TheArray, m, match_key)

(* C8: numeric equality is by value, not by representation: an element      *)
(* whose field is a number denoting the same value as a numeric match       *)
(* value (1 and 1.0) is reported as a match by find_element_by_match.       *)
C8_NumericEqualityByValue ==
    (/\ op = "find_element_by_match"
     /\ match_value.t = "Number") =>
        ((\E j \in Indices(TheArray) :
              /\ HasField(TheArray, j, match_key)
              /\ Field(TheArray, j, match_key).t = "Number"
              /\ NumValue2(Field(TheArray, j, match_key).n) = NumValue2(match_value.n))
            => ret # None)

-----------------------------------------------------------------------------
(* find_by_int_id_optimized, one element access at a time *)

\* the arrays the stepwise runs scan
ScanDocs == LargeDocs \cup { Obj([posts |-> Arr(a)]) : a \in { b \in SmallArrays : Len(b) <= 1 } }

InitScan ==
    /\ data \in ScanDocs
    /\ array_path = "posts"
    /\ match_key = "id"
    /\ match_value \in { PosInt(1), NegInt(-1) }
    /\ op = "find_by_int_id_optimized"
    /\ ret = None
    /\ panicked = FALSE
    /\ pc = "entry"
    /\ chunk_idx = 0
    /\ i = 0
    /\ examined = <<>>

\* if array.len() < 32 { return find_by_int_id_scalar(..) }; let chunks = ..
ScanEnter ==
    /\ pc = "entry"
    /\ pc' = IF UseScalar(TheArray) THEN "scalar" ELSE "block"
    /\ chunk_idx' = 0
    /\ i' = 0
    /\ UNCHANGED <<inputs, op, ret, panicked, examined>>

\* one call of the closure of array.iter().position(..), or its end
ScalarStep ==
    /\ pc = "scalar"
    /\ IF i >= Len(TheArray)
       THEN /\ ret' = None
            /\ pc' = "done"
            /\ UNCHANGED <<i, examined>>
       ELSE /\ examined' = Append(examined, i)
            /\ IF ScalarHit(At(TheArray, i), match_key, TheInt)
               THEN ret' = Some(i) /\ pc' = "done" /\ i' = i
               ELSE ret' = ret /\ pc' = pc /\ i' = i + 1
    /\ UNCHANGED <<inputs, op, panicked, chunk_idx>>

\* one iteration of the unrolled body: array[base + i]
BlockExamine ==
    /\ pc = "block"
    /\ chunk_idx < Chunks(TheArray)
    /\ i < UNROLL
    /\ LET base == chunk_idx * UNROLL IN
       IF base + i >= Len(TheArray)
       THEN /\ panicked' = TRUE
            /\ ret' = Panic
            /\ pc' = "done"
            /\ UNCHANGED <<i, examined>>
       ELSE /\ examined' = Append(examined, base + i)
            /\ panicked' = panicked
            /\ IF BlockHit(At(TheArray, base + i), match_key, TheInt)
               THEN ret' = Some(base + i) /\ pc' = "done" /\ i' = i
               ELSE ret' = ret /\ pc' = pc /\ i' = i + 1
    /\ UNCHANGED <<inputs, op, chunk_idx>>

\* for i in 0..UNROLL is exhausted: the next block
ChunkEnd ==
    /\ pc = "block"
    /\ chunk_idx < Chunks(TheArray)
    /\ i >= UNROLL
    /\ chunk_idx' = chunk_idx + 1
    /\ i' = 0
    /\ UNCHANGED <<inputs, op, ret, panicked, pc, examined>>

\* for chunk_idx in 0..chunks is exhausted: on to the remainder loop
BlocksEnd ==
    /\ pc = "block"
    /\ chunk_idx >= Chunks(TheArray)
    /\ pc' = "remainder"
    /\ i' = RemainderStart(TheArray)
    /\ UNCHANGED <<inputs, op, ret, panicked, chunk_idx, examined>>

\* one iteration of the remainder loop, or its end and the final None
RemainderStep ==
    /\ pc = "remainder"
    /\ IF i >= Len(TheArray)
       THEN /\ ret' = None
            /\ pc' = "done"
            /\ UNCHANGED <<i, examined>>
       ELSE /\ examined' = Append(examined, i)
            /\ IF RemainderHit(At(TheArray, i), match_key, TheInt)
               THEN ret' = Some(i) /\ pc' = "done" /\ i' = i
               ELSE ret' = ret /\ pc' = pc /\ i' = i + 1
    /\ UNCHANGED <<inputs, op, panicked, chunk_idx>>

NextScan ==
    \/ ScanEnter
    \/ ScalarStep
    \/ BlockExamine
    \/ ChunkEnd
    \/ BlocksEnd
    \/ RemainderStep

\* the loops run on until the function returns
SpecScan == InitScan /\ [][NextScan]_vars /\ WF_vars(NextScan)

\* the stepwise run returns what the call returns
ScanAgreesWithCall ==
    pc = "done" => ret = find_by_int_id_optimized(TheArray, match_key, TheInt)

\* the indices 0 .. n-1 in order
UpTo(n) == [j \in 1..n |-> j - 1]

\* the next indexed access of the unrolled body is within the array
NextAccessInBounds ==
    (pc = "block" /\ chunk_idx < Len(TheArray) \div UNROLL /\ i < UNROLL) =>
        chunk_idx * UNROLL + i < Len(TheArray)

ScanSafe ==
    /\ ~panicked
    /\ NextAccessInBounds
    /\ \A a \in 1..Len(examined) : examined[a] \in Indices(TheArray)
    /\ \A a, b \in 1..Len(examined) : a < b => examined[a] < examined[b]
    /\ (pc = "done" /\ ret # None) => examined = UpTo(Unwrap(ret) + 1)
    /\ (pc = "done" /\ ret = None) => examined = UpTo(Len(TheArray))

(* C10: find_by_int_id_optimized never fails and always terminates: every   *)
(* access array[base + i] of the block-unrolled branch is within bounds,    *)
(* the blocks and then the remainder loop visit the indices in strictly     *)
(* ascending order and at most once, every index below the returned one     *)
(* has been examined, and when None is returned every index has been        *)
(* examined exactly once.                                                   *)
C10_ScanSafeAndTerminates == []ScanSafe /\ <>(pc = "done")

\* the block-unrolled branch has read all 35 elements, 4 blocks and a
\* remainder of 3, and returned None
C10_Witness ==
    /\ pc = "done"
    /\ Len(TheArray) = THRESHOLD + 3
    /\ ret = None
    /\ examined = UpTo(THRESHOLD + 3)

====
